---- MODULE Spec2Model ----
(***************************************************************************)
(* Warehouse backend: document numbering and document lifecycles.          *)
(*                                                                         *)
(* A document number is a character string; it is modelled as a sequence   *)
(* of one-character strings so that startswith, split, int(), the 03d      *)
(* format and the database's string ordering are each computed as the      *)
(* code computes them.                                                     *)
(***************************************************************************)
EXTENDS Integers, Sequences, FiniteSets, TLC

(***************************************************************************)
(* Bounds of the model.                                                    *)
(***************************************************************************)
MaxDocs == 2          \* rows inserted in one behaviour of Spec
MaxProcs == 2         \* requests that can be in flight at once
MaxUsers == 2         \* authenticated users
MaxTime == 1          \* last instant of the clock (instants are 0..MaxTime)
NumYears == 2         \* calendar years the clock passes through
MaxLives == 1         \* rows created one after the other where a behaviour follows one row
MaxQty == 1           \* largest quantity a request gives a stock column
MaxStock == 1         \* rows of the Stock table
MaxLocations == 2     \* largest primary key of the Location table
MaxProducts == 1      \* largest primary key of the Product table
MaxAccounts == 2      \* largest primary key of the User table
MockCount == 2        \* users and products the mock data generator makes
MaxCategories == 2    \* largest primary key of the Category table

(***************************************************************************)
(* Program constants.                                                      *)
(***************************************************************************)
FirstYear == 2025     \* the year of the examples in the help texts
PadWidth == 3         \* the 03d of the format specification
FirstSeq == 1          \* next_num = 1 when the year has no number yet
SkuWidth == 6         \* str(i + 1).zfill(6)
LimitCap == 1000      \* min(int(limit), 1000)
DefaultLimit == 100   \* request.GET.get('limit', 100)

\* None where a character string is expected; an optional number (a key, a
\* user, an instant) is <<>> for None and <<x>> for x.
Null == "None"
None == <<>>
Some(x) == <<x>>

Procs == 1..MaxProcs
Users == 1..MaxUsers
Times == 0..MaxTime
Years == FirstYear..(FirstYear + NumYears - 1)

(***************************************************************************)
(* Character strings.                                                      *)
(***************************************************************************)
\* The characters that occur in document numbers, in code-point order.
Alphabet ==
  <<"-", "0", "1", "2", "3", "4", "5", "6", "7", "8", "9",
    "A", "C", "D", "F", "H", "J", "N", "O", "P", "R", "S", "T", "V">>

DigitChars == <<"0", "1", "2", "3", "4", "5", "6", "7", "8", "9">>

\* Position of a character in the collation order.
CharOrdOf ==
  [c \in {Alphabet[i] : i \in 1..Len(Alphabet)} |->
     CHOOSE i \in 1..Len(Alphabet) : Alphabet[i] = c]

CharOrd(c) == CharOrdOf[c]

IsDigit(c) == \E i \in 1..Len(DigitChars) : DigitChars[i] = c

DigitVal(c) == (CHOOSE i \in 1..Len(DigitChars) : DigitChars[i] = c) - 1

\* str(n) for a natural number n.
RECURSIVE Str(_)
Str(n) == IF n < 10 THEN <<DigitChars[n + 1]>>
          ELSE Append(Str(n \div 10), DigitChars[(n % 10) + 1])

\* format(n, '03d'): at least PadWidth characters, zeros on the left.
RECURSIVE ZeroPad(_, _)
ZeroPad(s, w) == IF Len(s) >= w THEN s ELSE ZeroPad(<<"0">> \o s, w)

Format03d(n) == ZeroPad(Str(n), PadWidth)

\* int(s) for a string of decimal digits.
RECURSIVE ParseInt(_)
ParseInt(s) == IF Len(s) = 0 THEN 0
               ELSE 10 * ParseInt(SubSeq(s, 1, Len(s) - 1)) + DigitVal(s[Len(s)])

\* s.startswith(p)
StartsWith(s, p) == Len(s) >= Len(p) /\ SubSeq(s, 1, Len(p)) = p

\* s.split('-')[-1]: what follows the last '-'.
RECURSIVE LastSegment(_)
LastSegment(s) ==
  IF Len(s) = 0 THEN <<>>
  ELSE IF s[Len(s)] = "-" THEN <<>>
  ELSE Append(LastSegment(SubSeq(s, 1, Len(s) - 1)), s[Len(s)])

\* The greatest string of S in the database's string order, S not empty,
\* all of S agreeing before position i: ORDER BY ... DESC, first row.
RECURSIVE GreatestFrom(_, _)
GreatestFrom(S, i) ==
  LET longer == {s \in S : Len(s) >= i}
  IN  IF longer = {} THEN CHOOSE s \in S : TRUE
      ELSE LET ords == {CharOrd(s[i]) : s \in longer}
               top == CHOOSE o \in ords : \A q \in ords : q <= o
           IN  GreatestFrom({s \in longer : CharOrd(s[i]) = top}, i + 1)

Greatest(S) == GreatestFrom(S, 1)

(***************************************************************************)
(* Document types.                                                         *)
(***************************************************************************)
DocTypes == {"Adjustment", "Transfer", "Receiving", "Shipment", "Return", "Order"}

\* The prefix each save() writes into its number.
Prefix(t) ==
  CASE t = "Adjustment" -> <<"A", "D", "J">>
    [] t = "Transfer"   -> <<"T", "R", "F">>
    [] t = "Receiving"  -> <<"R", "C", "V">>
    [] t = "Shipment"   -> <<"S", "H", "P">>
    [] t = "Return"     -> <<"R", "T", "N">>
    [] t = "Order"      -> <<"O", "R", "D">>

\* f'{PREFIX}-{year}-'
YearPrefix(t, y) == Prefix(t) \o <<"-">> \o Str(y) \o <<"-">>


(***************************************************************************)
(* The number generator of the six save() methods.                         *)
(***************************************************************************)
\* The numbers of the rows of table t.
Numbers(t, rows) == {d.no : d \in {r \in rows : r.type = t}}

\* filter(no__startswith=f'{PREFIX}-{year}-').order_by('-no').first()
LastNumber(t, y, rows) ==
  LET found == {n \in Numbers(t, rows) : StartsWith(n, YearPrefix(t, y))}
  IN  IF found = {} THEN None ELSE Greatest(found)

\* next_num of save().
NextNum(t, y, rows) ==
  LET last == LastNumber(t, y, rows)
  IN  IF last = None THEN FirstSeq ELSE ParseInt(LastSegment(last)) + 1

\* f'{PREFIX}-{year}-{next_num:03d}'
GeneratedNumber(t, y, rows) == YearPrefix(t, y) \o Format03d(NextNum(t, y, rows))

\* The buggy variant: the generator runs on every save.
SaveNumberAlways(t, no, y, rows) == GeneratedNumber(t, y, rows)

\* The number a save() leaves in the instance: generated only 'if not self.<no>'.
SaveNumber(t, no, y, rows) ==
  IF no = <<>> THEN GeneratedNumber(t, y, rows) ELSE no

\* The buggy variant: the total is left as the caller gave it.
SaveTotalKept(d) == d

\* Order.save(): total_amount = subtotal + tax_amount + shipping_amount -
\* discount_amount, on every save; the other models have no such column.
SaveTotal(d) ==
  IF d.type = "Order"
  THEN [d EXCEPT !.money["total_amount"] =
          d.money["subtotal"] + d.money["tax_amount"]
            + d.money["shipping_amount"] - d.money["discount_amount"]]
  ELSE d

(***************************************************************************)
(* Rows.                                                                   *)
(***************************************************************************)
\* The status choices of each model; Adjustment has no status column.
StatusChoices(t) ==
  CASE t = "Adjustment" -> {Null}
    [] t = "Transfer"   -> {"pending", "in_transit", "completed", "cancelled"}
    [] t = "Receiving"  -> {"draft", "received", "inspected", "approved", "rejected"}
    [] t = "Shipment"   -> {"draft", "packed", "shipped", "delivered", "cancelled"}
    [] t = "Return"     -> {"received", "inspected", "approved", "rejected", "processed"}
    [] t = "Order"      -> {"pending", "confirmed", "processing", "shipped",
                            "delivered", "cancelled"}

\* The default of the status column.
DefaultStatus(t) ==
  CASE t = "Adjustment" -> Null
    [] t = "Transfer"   -> "pending"
    [] t = "Receiving"  -> "draft"
    [] t = "Shipment"   -> "draft"
    [] t = "Return"     -> "received"
    [] t = "Order"      -> "pending"

\* The nullable user references a transition stamps.
ByFields == {"approved_by", "transferred_by", "inspected_by", "shipped_by",
             "processed_by"}

\* The nullable DateTimeFields a transition stamps.
AtFields == {"approved_at", "transferred_at", "inspected_at", "packed_at",
             "shipped_at", "delivered_at", "processed_at"}

\* The columns a transition fills from the request body.
DataFields == {"rejection_reason", "carrier", "tracking_number", "refund_amount"}

\* The user references of each model.
ByFieldsOf(t) ==
  CASE t = "Adjustment" -> {"approved_by"}
    [] t = "Transfer"   -> {"approved_by", "transferred_by"}
    [] t = "Receiving"  -> {"inspected_by", "approved_by"}
    [] t = "Shipment"   -> {"shipped_by"}
    [] t = "Return"     -> {"inspected_by", "approved_by", "processed_by"}
    [] t = "Order"      -> {"processed_by"}

NoBy == [f \in ByFields |-> None]
NoAt == [f \in AtFields |-> None]
NoData == [f \in DataFields |-> Null]

\* The financial columns of an order, in hundredths (decimal_places=2);
\* the other tables have none.
MoneyFields == {"subtotal", "tax_amount", "shipping_amount", "discount_amount",
                "total_amount"}
NoMoney == <<>>
DefaultMoney == [f \in MoneyFields |-> 0]
MoneyOf(t) == IF t = "Order" THEN DefaultMoney ELSE NoMoney

\* What a POST body can set: the serializers leave status and the user
\* references writable, the number and the timestamps read-only.
Payloads(t, users) ==
  [status : StatusChoices(t),
   by : {b \in [ByFields -> {None} \cup {Some(u) : u \in users}] :
           \A f \in ByFields \ ByFieldsOf(t) : b[f] = None},
   money : {MoneyOf(t)}]

\* A POST body that sets none of them.
DefaultPayload(t) == [status |-> DefaultStatus(t), by |-> NoBy, money |-> MoneyOf(t)]

\* The instance the serializer builds for a POST: no key, no number yet.
NewRow(t, data) ==
  [id |-> 0, type |-> t, no |-> <<>>, status |-> data.status,
   by |-> data.by, at |-> NoAt, data |-> NoData, money |-> data.money]

(***************************************************************************)
(* State.                                                                  *)
(***************************************************************************)
VARIABLES
  db,        \* the rows of the six document tables
  nextId,    \* the next primary key
  year,      \* timezone.now().year
  now,       \* timezone.now()
  proc,      \* per request slot: the instance of a save() between SELECT and INSERT
  resp,      \* the last response sent: view action, table, key, caller, status code
  issued,    \* history: every (table, number) that was ever stored
  trail,     \* history: the requests on the row created last, while they are
             \* its creation with the defaults, then approve, then execute
  stock,     \* the rows of the Stock table
  location,  \* the rows of the Location table
  lastSave,  \* history: the instance handed to the last Location.save(),
             \* whether it was stored, and the row as stored
  product,   \* the rows of the Product table
  buffer,    \* the rows of the StockBuffer table
  movement,  \* the rows of the StockMovement table
  users,     \* the rows of the User table
  gone,      \* the callers of the document requests whose account was deleted
  category,  \* the rows of the Category table
  settings,  \* data_generator.MOCK_SETTINGS
  cache,     \* the response cache of cache_page, by view
  mock,      \* data_generator.MOCK_USERS and MOCK_PRODUCTS
  answer     \* the last answer of a read request or of a mock-data request

vars == <<db, nextId, year, now, proc, resp, issued, trail, stock, location,
          lastSave, product, buffer, movement, users, gone, category,
          settings, cache, mock, answer>>

\* The variables of the document tables and their requests.
docVars == <<db, nextId, year, now, proc, resp, issued, trail>>

\* The variables of the reference data, the accounts and the mock data.
refVars == <<product, buffer, movement, users, gone, category, settings, cache, mock,
            answer>>

Idle == [row |-> Null]

\* resp.n alternates, so that every response differs from the one before.
NoResponse == [n |-> 0, op |-> Null, type |-> Null, id |-> 0, user |-> 0, code |-> 0]

Response(op, t, id, u, code) ==
  [n |-> 1 - resp.n, op |-> op, type |-> t, id |-> id, user |-> u, code |-> code]

NoTrail == [type |-> Null, id |-> 0, ops |-> <<>>]

\* MOCK_SETTINGS of the module as imported: an empty dict.
NoSettings == <<>>

\* Two of the sections of the settings, and the contents of a section.
SettingKeys == {"general", "security"}
SettingValues == {0, 1}

\* _generate_settings(): the settings of initialize_mock_data(), every
\* section with its first content.
DefaultSettings == [k \in SettingKeys |-> 0]

\* The cache of a process that served no request.
NoCache == [settings_api |-> None]

\* MOCK_USERS and MOCK_PRODUCTS of the module as imported: empty lists.
NoMockData == [ready |-> FALSE, users |-> <<>>, products |-> <<>>]

\* No read request was answered yet.
NoAnswer == [n |-> 0, op |-> Null]

\* No Location.save() was called yet.
NoSave == [stored |-> FALSE, inst |-> <<>>, row |-> <<>>]

\* The trail after a request op of user u on row id of table t.
Trailed(op, t, id, u) ==
  IF t # trail.type \/ id # trail.id THEN trail
  ELSE IF \/ Len(trail.ops) = 1 /\ op = "approve"
          \/ Len(trail.ops) = 2 /\ op = "execute"
       THEN [trail EXCEPT !.ops = Append(@, [op |-> op, user |-> u, time |-> now])]
       ELSE NoTrail

\* The trail after row d was created by user u.
TrailStart(d, u) ==
  IF d.status = DefaultStatus(d.type) /\ d.by = NoBy
  THEN [type |-> d.type, id |-> d.id,
        ops |-> <<[op |-> "create", user |-> u, time |-> now]>>]
  ELSE NoTrail

Init ==
  /\ db = {}
  /\ nextId = 1
  /\ year = FirstYear
  /\ now = 0
  /\ proc = [p \in Procs |-> Idle]
  /\ resp = NoResponse
  /\ issued = {}
  /\ trail = NoTrail
  /\ stock = {}
  /\ location = {}
  /\ lastSave = NoSave
  /\ product = {}
  /\ buffer = {}
  /\ movement = {}
  /\ users = {}
  /\ gone = {}
  /\ category = {}
  /\ settings = NoSettings
  /\ cache = NoCache
  /\ mock = NoMockData
  /\ answer = NoAnswer

\* The row of table t with primary key id.
RowIn(rows, t, id) == CHOOSE d \in rows : d.type = t /\ d.id = id

Row(t, id) == RowIn(db, t, id)

ExistsIn(rows, t, id) == \E d \in rows : d.type = t /\ d.id = id

Exists(t, id) == ExistsIn(db, t, id)

\* The serializers of the operations app call Sum in their method fields
\* and never import it: rendering a row of these tables raises NameError.
SerializerRaises(t) == t \in {"Receiving", "Shipment", "Return", "Order"}

\* The status code of a response that renders the row of table t: the
\* exception comes after the row was written and turns the response into
\* a 500.
Rendered(t, code) == IF SerializerRaises(t) THEN 500 ELSE code

\* The unique=True of the number column: the INSERT or UPDATE of row d is
\* refused when another row of its table carries d's number.
UniqueAlways(d, rows) == TRUE

Unique(d, rows) ==
  \A e \in rows : (e.type = d.type /\ e.id # d.id) => e.no # d.no

(***************************************************************************)
(* create: POST, serializer.save(), Model.save().                          *)
(***************************************************************************)
\* save() up to its SELECT: the instance now carries its number.
BeginCreate(p, t, u, data) ==
  /\ proc[p] = Idle
  /\ proc' = [proc EXCEPT ![p] =
       [row |-> SaveTotal([NewRow(t, data) EXCEPT
                               !.no = SaveNumber(t, <<>>, year, db)]),
        user |-> u]]
  /\ UNCHANGED <<db, nextId, year, now, resp, issued, trail, stock, location, lastSave, refVars>>

\* The buggy variant: the number is drawn again when the row is written.
InsertedRowFresh(p) ==
  [proc[p].row EXCEPT !.id = nextId,
                      !.no = GeneratedNumber(proc[p].row.type, year, db)]

\* The row the INSERT of request p writes: the instance as save() left it.
InsertedRow(p) == [proc[p].row EXCEPT !.id = nextId]

\* super().save(): the INSERT; a duplicate number is an IntegrityError.
FinishCreate(p) ==
  /\ proc[p] # Idle
  /\ LET d == InsertedRow(p)
     IN  IF Unique(d, db)
         THEN /\ db' = db \cup {d}
              /\ nextId' = nextId + 1
              /\ issued' = issued \cup {<<d.type, d.no>>}
              /\ resp' = Response("create", d.type, d.id, proc[p].user,
                                Rendered(d.type, 201))
              /\ trail' = TrailStart(d, proc[p].user)
         ELSE /\ resp' = Response("create", d.type, 0, proc[p].user, 500)
              /\ UNCHANGED <<db, nextId, issued, trail>>
  /\ proc' = [proc EXCEPT ![p] = Idle]
  /\ UNCHANGED <<year, now, stock, location, lastSave, refVars>>

\* destroy: DELETE of a row.
Delete(t, id, u) ==
  /\ Exists(t, id)
  /\ db' = db \ {Row(t, id)}
  /\ resp' = Response("destroy", t, id, u, 204)
  /\ trail' = Trailed("destroy", t, id, u)
  /\ UNCHANGED <<nextId, year, now, proc, issued, stock, location, lastSave, refVars>>

\* The calendar year changes.
NewYear ==
  /\ year + 1 \in Years
  /\ year' = year + 1
  /\ UNCHANGED <<db, nextId, now, proc, resp, issued, trail, stock, location, lastSave, refVars>>

(***************************************************************************)
(* Numbering under concurrent requests: creations in MaxProcs request      *)
(* slots, deletions, the turn of the year.                                 *)
(***************************************************************************)
Ids == 1..MaxDocs

\* A save() reads and writes the table of its own model only, so a
\* behaviour follows the requests on one table: t is the table of every
\* row stored so far and of every request in flight.
OnlyTable(t) ==
  /\ {n \in issued : n[1] # t} = {}
  /\ {q \in Procs : proc[q] # Idle /\ proc[q].row.type # t} = {}

StartCreate ==
  \E p \in Procs, t \in DocTypes :
    /\ nextId <= MaxDocs
    /\ OnlyTable(t)
    /\ BeginCreate(p, t, 1, DefaultPayload(t))

EndCreate == \E p \in Procs : FinishCreate(p)

Destroy == \E t \in DocTypes, id \in Ids : Delete(t, id, 1)

Next == StartCreate \/ EndCreate \/ Destroy \/ NewYear

Spec == Init /\ [][Next]_vars

(***************************************************************************)
(* Sequential creation: one request at a time, one table, one year.        *)
(***************************************************************************)
SeqBegin ==
  \E t \in DocTypes :
    /\ OnlyTable(t)
    /\ BeginCreate(1, t, 1, DefaultPayload(t))

SeqFinish == FinishCreate(1)

NextSeq == SeqBegin \/ SeqFinish

SpecSeq == Init /\ [][NextSeq]_vars

(***************************************************************************)
(* Requests on an existing row: the transition actions of the view sets    *)
(* and the generic update.                                                 *)
(***************************************************************************)
\* request._get_raw_host(): the Host header as the client sent it.  A host
\* is an ordinary name, or a text that spells a datetime.
Hosts == {[name |-> "localhost", spells |-> None]}
           \cup {[name |-> "datetime", spells |-> Some(i)] : i \in Times}

\* parse_datetime / parse_date of DateTimeField.to_python: None for a
\* string that spells no datetime.
ParseDatetime(h) == h.spells

\* request.data.get('refund_amount'): absent, a decimal, or some other text.
RefundInputs == {Null, "10.00", "abc"}

\* DecimalField.to_python raises for a text that is no decimal.
DecimalValid(v) == v # "abc"

\* request.data.get('carrier'), request.data.get('tracking_number').
TextInputs == {Null, "text"}

\* request.data.get('reason', '')
ReasonInputs == {"", "text"}

\* A DateTimeField the view assigned the raw host to.
Stamp(field, h) == {[field |-> field, host |-> h]}
NoStamp == {}

\* Model.save() of the instance a view changed, inst; stamps are the
\* DateTimeFields the view assigned a host to.  The number is generated
\* only if the instance has none; a value that is no datetime or no
\* decimal raises before the UPDATE, and nothing is written.
\* The Stock table after the handler of request op has saved document inst
\* with instance.save(): the handlers write the document and nothing else
\* ("Here you would implement the actual stock movement logic").
StockWrittenMoved(op, inst) ==
  {[r EXCEPT !.quantity_available = 0] : r \in stock}

StockWritten(op, inst) == stock

SaveInstance(op, inst, u, stamps) ==
  LET old == Row(inst.type, inst.id)
      row == [SaveTotal(inst) EXCEPT
                !.no = SaveNumber(inst.type, inst.no, year, db),
                !.at = [f \in AtFields |->
                          IF \E st \in stamps : st.field = f
                          THEN ParseDatetime(
                                 (CHOOSE st \in stamps : st.field = f).host)
                          ELSE inst.at[f]]]
      valid == /\ \A st \in stamps : ParseDatetime(st.host) # None
               /\ DecimalValid(inst.data["refund_amount"])
  IN  IF valid /\ Unique(row, db)
      THEN /\ db' = (db \ {old}) \cup {row}
           /\ issued' = issued \cup {<<row.type, row.no>>}
           /\ resp' = Response(op, inst.type, inst.id, u, Rendered(inst.type, 200))
           /\ trail' = Trailed(op, inst.type, inst.id, u)
           /\ stock' = StockWritten(op, inst)
           /\ UNCHANGED <<nextId, year, now, proc, location, lastSave, refVars>>
      ELSE /\ resp' = Response(op, inst.type, inst.id, u, 500)
           /\ trail' = Trailed(op, inst.type, inst.id, u)
           /\ UNCHANGED <<db, nextId, year, now, proc, issued, stock, location, lastSave, refVars>>

\* Response({'error': ...}, status=400): nothing is written.
Refuse(op, t, id, u) ==
  /\ resp' = Response(op, t, id, u, 400)
  /\ trail' = Trailed(op, t, id, u)
  /\ UNCHANGED <<db, nextId, year, now, proc, issued, stock, location, lastSave, refVars>>

\* The instance with a new status, the caller in a user reference.
Stamped(d, status, byf, u) ==
  [d EXCEPT !.status = status, !.by[byf] = Some(u)]

\* update / partial_update with one writable field in the body: the status
\* (a ChoiceField: a value outside the choices is a 400), a user reference,
\* or a text column.
UpdateStatus(t, id, u, status) ==
  /\ Exists(t, id)
  /\ t # "Adjustment"
  /\ IF status \in StatusChoices(t)
     THEN SaveInstance("update", [Row(t, id) EXCEPT !.status = status], u, NoStamp)
     ELSE Refuse("update", t, id, u)

UpdateBy(t, id, u, byf, v) ==
  /\ Exists(t, id)
  /\ byf \in ByFieldsOf(t)
  /\ SaveInstance("update", [Row(t, id) EXCEPT !.by[byf] = v], u, NoStamp)

\* update / partial_update of one financial column of an order; the
\* serializer leaves all five writable.
UpdateMoney(id, u, f, v) ==
  /\ Exists("Order", id)
  /\ SaveInstance("update", [Row("Order", id) EXCEPT !.money[f] = v], u, NoStamp)

\* The buggy variant: the status check of the view is missing.
TransferApproveAllowedAlways(d) == TRUE

\* if transfer.status != 'pending': 400
TransferApproveAllowed(d) == d.status = "pending"

\* if transfer.status != 'approved': 400
TransferExecuteAllowed(d) == d.status = "approved"

\* if adjustment.approved_by: 400
AdjustmentApproveAllowed(d) == d.by["approved_by"] = None

AdjustmentApprove(id, u, h) ==
  /\ Exists("Adjustment", id)
  /\ LET d == Row("Adjustment", id)
     IN  IF AdjustmentApproveAllowed(d)
         THEN SaveInstance("approve", [d EXCEPT !.by["approved_by"] = Some(u)],
                           u, Stamp("approved_at", h))
         ELSE Refuse("approve", "Adjustment", id, u)

TransferApprove(id, u, h) ==
  /\ Exists("Transfer", id)
  /\ LET d == Row("Transfer", id)
     IN  IF TransferApproveAllowed(d)
         THEN SaveInstance("approve", Stamped(d, "approved", "approved_by", u),
                           u, Stamp("approved_at", h))
         ELSE Refuse("approve", "Transfer", id, u)

TransferExecute(id, u, h) ==
  /\ Exists("Transfer", id)
  /\ LET d == Row("Transfer", id)
     IN  IF TransferExecuteAllowed(d)
         THEN SaveInstance("execute", Stamped(d, "completed", "transferred_by", u),
                           u, Stamp("transferred_at", h))
         ELSE Refuse("execute", "Transfer", id, u)

ReceivingInspect(id, u, h) ==
  /\ Exists("Receiving", id)
  /\ SaveInstance("inspect",
                  Stamped(Row("Receiving", id), "inspected", "inspected_by", u),
                  u, Stamp("inspected_at", h))

ReceivingApprove(id, u, h) ==
  /\ Exists("Receiving", id)
  /\ SaveInstance("approve",
                  Stamped(Row("Receiving", id), "approved", "approved_by", u),
                  u, Stamp("approved_at", h))

ReceivingReject(id, u, reason) ==
  /\ Exists("Receiving", id)
  /\ SaveInstance("reject",
                  [Row("Receiving", id) EXCEPT
                     !.status = "rejected", !.data["rejection_reason"] = reason],
                  u, NoStamp)

ShipmentPack(id, u, h) ==
  /\ Exists("Shipment", id)
  /\ SaveInstance("pack", [Row("Shipment", id) EXCEPT !.status = "packed"],
                  u, Stamp("packed_at", h))

ShipmentShip(id, u, h, carrier, tracking) ==
  /\ Exists("Shipment", id)
  /\ SaveInstance("ship",
                  [Stamped(Row("Shipment", id), "shipped", "shipped_by", u) EXCEPT
                     !.data["carrier"] = carrier,
                     !.data["tracking_number"] = tracking],
                  u, Stamp("shipped_at", h))

ShipmentDeliver(id, u, h) ==
  /\ Exists("Shipment", id)
  /\ SaveInstance("deliver", [Row("Shipment", id) EXCEPT !.status = "delivered"],
                  u, Stamp("delivered_at", h))

ReturnInspect(id, u, h) ==
  /\ Exists("Return", id)
  /\ SaveInstance("inspect",
                  Stamped(Row("Return", id), "inspected", "inspected_by", u),
                  u, Stamp("inspected_at", h))

ReturnApprove(id, u, h, refund) ==
  /\ Exists("Return", id)
  /\ SaveInstance("approve",
                  [Stamped(Row("Return", id), "approved", "approved_by", u) EXCEPT
                     !.data["refund_amount"] = refund],
                  u, Stamp("approved_at", h))

ReturnProcess(id, u, h) ==
  /\ Exists("Return", id)
  /\ SaveInstance("process",
                  Stamped(Row("Return", id), "processed", "processed_by", u),
                  u, Stamp("processed_at", h))

OrderConfirm(id, u) ==
  /\ Exists("Order", id)
  /\ SaveInstance("confirm", [Row("Order", id) EXCEPT !.status = "confirmed"],
                  u, NoStamp)

OrderProcess(id, u, h) ==
  /\ Exists("Order", id)
  /\ SaveInstance("process",
                  Stamped(Row("Order", id), "processing", "processed_by", u),
                  u, Stamp("processed_at", h))

OrderShip(id, u, h) ==
  /\ Exists("Order", id)
  /\ SaveInstance("ship", [Row("Order", id) EXCEPT !.status = "shipped"],
                  u, Stamp("shipped_at", h))

OrderDeliver(id, u, h) ==
  /\ Exists("Order", id)
  /\ SaveInstance("deliver", [Row("Order", id) EXCEPT !.status = "delivered"],
                  u, Stamp("delivered_at", h))

\* Time passes.
Tick ==
  /\ now < MaxTime
  /\ now' = now + 1
  /\ UNCHANGED <<db, nextId, year, proc, resp, issued, trail, stock, location, lastSave, refVars>>

(***************************************************************************)
(* The life of a transfer.  A view action reads and writes the one row     *)
(* its key names (get_object), so a behaviour follows one stored row at a  *)
(* time: the next is created when the table is empty again.                *)
(***************************************************************************)
\* What a PUT or PATCH body can carry as status: the choices, and the
\* status the approve action writes.
StatusInputs(t) == StatusChoices(t) \cup {"approved"}

TransferPost ==
  \E u \in Users :
    \E data \in Payloads("Transfer", {u}) :
      /\ db = {}
      /\ nextId <= MaxLives
      /\ BeginCreate(1, "Transfer", u, data)

TransferInsert == FinishCreate(1)

TransferPatch ==
  \E id \in Ids, u \in Users :
    \/ \E status \in StatusInputs("Transfer") :
         UpdateStatus("Transfer", id, u, status)
    \/ \E byf \in ByFieldsOf("Transfer"), v \in {None, Some(u)} :
         UpdateBy("Transfer", id, u, byf, v)

TransferDestroy == \E id \in Ids, u \in Users : Delete("Transfer", id, u)

TransferApproval == \E id \in Ids, u \in Users, h \in Hosts : TransferApprove(id, u, h)

TransferExecution == \E id \in Ids, u \in Users, h \in Hosts : TransferExecute(id, u, h)

NextTransfer ==
  \/ TransferPost
  \/ TransferInsert
  \/ TransferPatch
  \/ TransferDestroy
  \/ TransferApproval
  \/ TransferExecution
  \/ Tick

SpecTransfer == Init /\ [][NextTransfer]_vars

(***************************************************************************)
(* The lives of the six document types: one table, one stored row at a     *)
(* time, one caller, and a host that is a name or spells the instant 0.    *)
(***************************************************************************)
LifeHosts == {h \in Hosts : h.spells \in {None, Some(0)}}

LifePost ==
  \E t \in DocTypes :
    /\ db = {}
    /\ nextId <= MaxLives
    /\ OnlyTable(t)
    /\ BeginCreate(1, t, 1, DefaultPayload(t))

LifeInsert == FinishCreate(1)

LifePatch ==
  \E t \in DocTypes, id \in Ids :
    \/ \E status \in StatusInputs(t) : UpdateStatus(t, id, 1, status)
    \/ \E byf \in ByFieldsOf(t), v \in {None, Some(1)} : UpdateBy(t, id, 1, byf, v)

LifeDestroy == \E t \in DocTypes, id \in Ids : Delete(t, id, 1)

LifeAdjustment == \E id \in Ids, h \in LifeHosts : AdjustmentApprove(id, 1, h)

LifeTransfer ==
  \E id \in Ids, h \in LifeHosts :
    \/ TransferApprove(id, 1, h)
    \/ TransferExecute(id, 1, h)

LifeReceiving ==
  \E id \in Ids :
    \/ \E h \in LifeHosts : ReceivingInspect(id, 1, h)
    \/ \E h \in LifeHosts : ReceivingApprove(id, 1, h)
    \/ \E reason \in ReasonInputs : ReceivingReject(id, 1, reason)

LifeShipment ==
  \E id \in Ids, h \in LifeHosts :
    \/ ShipmentPack(id, 1, h)
    \/ \E carrier \in TextInputs, tracking \in TextInputs :
         ShipmentShip(id, 1, h, carrier, tracking)
    \/ ShipmentDeliver(id, 1, h)

LifeReturn ==
  \E id \in Ids, h \in LifeHosts :
    \/ ReturnInspect(id, 1, h)
    \/ \E refund \in RefundInputs : ReturnApprove(id, 1, h, refund)
    \/ ReturnProcess(id, 1, h)

LifeOrder ==
  \E id \in Ids :
    \/ OrderConfirm(id, 1)
    \/ \E h \in LifeHosts : OrderProcess(id, 1, h)
    \/ \E h \in LifeHosts : OrderShip(id, 1, h)
    \/ \E h \in LifeHosts : OrderDeliver(id, 1, h)

NextLife ==
  \/ LifePost
  \/ LifeInsert
  \/ LifePatch
  \/ LifeDestroy
  \/ LifeAdjustment
  \/ LifeTransfer
  \/ LifeReceiving
  \/ LifeShipment
  \/ LifeReturn
  \/ LifeOrder
  \/ NewYear

SpecLife == Init /\ [][NextLife]_vars

(***************************************************************************)
(* Stock: create, update and delete through StockViewSet; Stock.save().    *)
(***************************************************************************)
\* Amounts are in hundredths.  unit_cost as a request gives it: absent, or
\* a decimal; MinValueValidator(0.01) refuses 0.
UnitCostInputs == {None, Some(0), Some(250)}

UnitCostValid(c) == c = None \/ c[1] >= 1

\* total_value is writable in StockSerializer.
TotalValueInputs == {None, Some(999)}

StockInputs ==
  [quantity_available : 0..MaxQty, quantity_reserved : 0..MaxQty,
   quantity_allocated : 0..MaxQty, unit_cost : UnitCostInputs,
   total_value : TotalValueInputs]

\* Stock.quantity_total
QuantityTotal(r) ==
  r.quantity_available + r.quantity_reserved + r.quantity_allocated

\* Stock.save(): total_value is assigned when unit_cost and quantity_total
\* are both truthy, and is left as it is otherwise.
StockSave(r) ==
  IF r.unit_cost # None /\ r.unit_cost[1] # 0 /\ QuantityTotal(r) # 0
  THEN [r EXCEPT !.total_value = Some(r.unit_cost[1] * QuantityTotal(r))]
  ELSE r

\* A primary key not in use in the table rows.
FreshId(rows) ==
  IF rows = {} THEN 1
  ELSE 1 + (CHOOSE k \in {r.id : r \in rows} : \A r \in rows : r.id <= k)

\* The Stock row with primary key id.
StockRow(id) == CHOOSE r \in stock : r.id = id

\* StockViewSet.create with the request body data
StockCreate(data) ==
    /\ Cardinality(stock) < MaxStock
    /\ IF UnitCostValid(data.unit_cost)
       THEN /\ stock' = stock \cup
                   {StockSave([id |-> FreshId(stock),
                               quantity_available |-> data.quantity_available,
                               quantity_reserved |-> data.quantity_reserved,
                               quantity_allocated |-> data.quantity_allocated,
                               unit_cost |-> data.unit_cost,
                               total_value |-> data.total_value])}
            /\ resp' = Response("create", "Stock", FreshId(stock), 1, 201)
       ELSE /\ resp' = Response("create", "Stock", 0, 1, 400)
            /\ UNCHANGED stock
    /\ UNCHANGED <<db, nextId, year, now, proc, issued, trail, location, lastSave, refVars>>

StockPost == \E data \in StockInputs : StockCreate(data)

\* update / partial_update of one column.
StockPatched(r, f, v) ==
  CASE f = "quantity_available" -> [r EXCEPT !.quantity_available = v]
    [] f = "quantity_reserved"  -> [r EXCEPT !.quantity_reserved = v]
    [] f = "quantity_allocated" -> [r EXCEPT !.quantity_allocated = v]
    [] f = "unit_cost"          -> [r EXCEPT !.unit_cost = v]
    [] f = "total_value"        -> [r EXCEPT !.total_value = v]

StockFieldInputs(f) ==
  CASE f = "unit_cost"   -> UnitCostInputs
    [] f = "total_value" -> TotalValueInputs
    [] OTHER             -> 0..MaxQty

StockFields == {"quantity_available", "quantity_reserved", "quantity_allocated",
                "unit_cost", "total_value"}

StockPatch ==
  \E r \in stock, f \in StockFields :
    \E v \in StockFieldInputs(f) :
      /\ IF f = "unit_cost" => UnitCostValid(v)
         THEN /\ stock' = (stock \ {r}) \cup {StockSave(StockPatched(r, f, v))}
              /\ resp' = Response("update", "Stock", r.id, 1, 200)
         ELSE /\ resp' = Response("update", "Stock", r.id, 1, 400)
              /\ UNCHANGED stock
      /\ UNCHANGED <<db, nextId, year, now, proc, issued, trail, location, lastSave, refVars>>

StockDestroy ==
  \E r \in stock :
    /\ stock' = stock \ {r}
    /\ resp' = Response("destroy", "Stock", r.id, 1, 204)
    /\ UNCHANGED <<db, nextId, year, now, proc, issued, trail, location, lastSave, refVars>>

NextStock == StockPost \/ StockPatch \/ StockDestroy

SpecStock == Init /\ [][NextStock]_vars

(***************************************************************************)
(* Location: Location.save() of a new instance and of a stored one.        *)
(***************************************************************************)
\* '-'.join(parts)
RECURSIVE Join(_)
Join(parts) ==
  IF Len(parts) = 0 THEN <<>>
  ELSE IF Len(parts) = 1 THEN parts[1]
  ELSE parts[1] \o <<"-">> \o Join(Tail(parts))

\* aisle: null, the empty string, or a text.
AisleInputs == {None, Some(<<>>), Some(<<"A">>)}

\* rack and bin: a text.
RackInputs == {<<"0", "1">>}
BinInputs == {<<"0", "2">>}

\* level: null or a PositiveIntegerField value, which may be 0.
LevelInputs == {None, Some(0), Some(1)}

\* code: the empty string of a new instance, or a text.
CodeInputs == {<<>>, <<"A", "-", "0", "1">>}

Warehouses == {1, 2}

LocationInputs ==
  [warehouse : Warehouses, aisle : AisleInputs, rack : RackInputs,
   bin : BinInputs, level : LevelInputs, code : CodeInputs]

\* Location.save() up to super().save(): the code is put together when the
\* instance has none, from the parts that are truthy.
LocationCode(i) ==
  IF i.code # <<>> THEN i
  ELSE [i EXCEPT !.code =
          Join((IF i.aisle # None /\ i.aisle[1] # <<>> THEN <<i.aisle[1]>> ELSE <<>>)
               \o <<i.rack, i.bin>>
               \o (IF i.level # None /\ i.level[1] # 0
                   THEN <<Str(i.level[1])>> ELSE <<>>))]

\* unique=True of code and unique_together of (warehouse, aisle, rack, bin,
\* level), where a null never equals a null: row r can be written next to
\* the other rows.
LocationUnique(r, rows) ==
  \A e \in rows :
    e.id # r.id =>
      /\ e.code # r.code
      /\ ~ /\ e.warehouse = r.warehouse
            /\ e.aisle # None /\ e.aisle = r.aisle
            /\ e.rack = r.rack /\ e.bin = r.bin
            /\ e.level # None /\ e.level = r.level

\* The instance i as a row with primary key id.
LocationRow(i, id) ==
  [id |-> id, warehouse |-> i.warehouse, aisle |-> i.aisle, rack |-> i.rack,
   bin |-> i.bin, level |-> i.level, code |-> i.code]

\* super().save() of instance i with key id: the row is written, or an
\* IntegrityError leaves the table as it is.
LocationWrite(i, id) ==
  LET r == LocationRow(LocationCode(i), id)
  IN  /\ IF LocationUnique(r, location)
         THEN /\ location' = {e \in location : e.id # id} \cup {r}
              /\ lastSave' = [stored |-> TRUE, inst |-> i, row |-> r]
         ELSE /\ lastSave' = [stored |-> FALSE, inst |-> i, row |-> r]
              /\ UNCHANGED location
      /\ UNCHANGED <<docVars, stock, refVars>>

\* Location(...).save()
LocationSave ==
  \E i \in LocationInputs :
    /\ FreshId(location) <= MaxLocations
    /\ LocationWrite(i, FreshId(location))

\* A stored location is loaded, its code, aisle or level is assigned, and
\* it is saved again.
LocationResave ==
  \E r \in location :
    \/ \E c \in CodeInputs :
         LocationWrite([code |-> c, warehouse |-> r.warehouse, aisle |-> r.aisle,
                        rack |-> r.rack, bin |-> r.bin, level |-> r.level], r.id)
    \/ \E a \in AisleInputs :
         LocationWrite([code |-> r.code, warehouse |-> r.warehouse, aisle |-> a,
                        rack |-> r.rack, bin |-> r.bin, level |-> r.level], r.id)
    \/ \E l \in LevelInputs :
         LocationWrite([code |-> r.code, warehouse |-> r.warehouse, aisle |-> r.aisle,
                        rack |-> r.rack, bin |-> r.bin, level |-> l], r.id)

LocationDelete ==
  \E r \in location :
    /\ location' = location \ {r}
    /\ UNCHANGED <<docVars, stock, lastSave, refVars>>

NextLocation == LocationSave \/ LocationResave \/ LocationDelete

SpecLocation == Init /\ [][NextLocation]_vars

(***************************************************************************)
(* The state machines alone: documents created with the defaults and then  *)
(* moved by the transition actions only, no generic update or delete.      *)
(***************************************************************************)
NextMachine ==
  \/ LifePost
  \/ LifeInsert
  \/ LifeAdjustment
  \/ LifeTransfer
  \/ LifeReceiving
  \/ LifeShipment
  \/ LifeReturn
  \/ LifeOrder

SpecMachine == Init /\ [][NextMachine]_vars

(***************************************************************************)
(* The life of an order with its amounts: created with any amounts, an     *)
(* amount changed by a generic update, moved by the transition actions.    *)
(***************************************************************************)
\* The values a request body gives each financial column, in hundredths.
MoneyValues(f) ==
  CASE f = "subtotal"        -> {0, 100}
    [] f = "tax_amount"      -> {0, 8}
    [] f = "shipping_amount" -> {0, 5}
    [] f = "discount_amount" -> {0, 10}
    [] f = "total_amount"    -> {0, 999}

MoneyInputs == {m \in [MoneyFields -> {0, 5, 8, 10, 100, 999}] :
                  \A f \in MoneyFields : m[f] \in MoneyValues(f)}

OrderPost ==
  \E m \in MoneyInputs :
    /\ db = {}
    /\ nextId <= MaxLives
    /\ BeginCreate(1, "Order", 1, [DefaultPayload("Order") EXCEPT !.money = m])

OrderInsert == FinishCreate(1)

OrderPatch ==
  \E id \in Ids, f \in MoneyFields :
    \E v \in MoneyValues(f) : UpdateMoney(id, 1, f, v)

OrderDestroy == \E id \in Ids : Delete("Order", id, 1)

NextOrder ==
  \/ OrderPost
  \/ OrderInsert
  \/ OrderPatch
  \/ OrderDestroy
  \/ LifeOrder

SpecOrder == Init /\ [][NextOrder]_vars

(***************************************************************************)
(* Low stock: products, stock buffers and stock rows of a product, and the *)
(* two read requests that list the rows with a low quantity.               *)
(***************************************************************************)
\* The answer to a read request op: status code and the listed rows.
Answer(op, code, items) ==
  [n |-> 1 - answer.n, op |-> op, code |-> code, items |-> items]

\* ProductViewSet.create
ProductPost ==
  \E rp \in 0..MaxQty :
    /\ FreshId(product) <= MaxProducts
    /\ product' = product \cup {[id |-> FreshId(product), reorder_point |-> rp]}
    /\ UNCHANGED <<docVars, stock, location, lastSave, buffer, movement, users,
                   gone, category, settings, cache, mock, answer>>

\* ProductViewSet.partial_update of reorder_point
ProductPatch ==
  \E p \in product, rp \in 0..MaxQty :
    /\ product' = (product \ {p}) \cup {[p EXCEPT !.reorder_point = rp]}
    /\ UNCHANGED <<docVars, stock, location, lastSave, buffer, movement, users,
                   gone, category, settings, cache, mock, answer>>

\* StockBufferViewSet.create: a product has at most one buffer.
BufferPost ==
  \E p \in product, m \in 0..MaxQty :
    /\ \A b \in buffer : b.product # p.id
    /\ buffer' = buffer \cup {[product |-> p.id, minimum_quantity |-> m]}
    /\ UNCHANGED <<docVars, stock, location, lastSave, product, movement, users,
                   gone, category, settings, cache, mock, answer>>

\* StockBufferViewSet.destroy
BufferDestroy ==
  \E b \in buffer :
    /\ buffer' = buffer \ {b}
    /\ UNCHANGED <<docVars, stock, location, lastSave, product, movement, users,
                   gone, category, settings, cache, mock, answer>>

\* StockViewSet.create of a row of product p; the row carries its product.
ProductStockPost ==
  \E p \in product, q \in 0..(MaxQty + 1) :
    /\ FreshId(stock) <= MaxStock
    /\ stock' = stock \cup
         {StockSave([id |-> FreshId(stock), product |-> p.id,
                     quantity_available |-> q, quantity_reserved |-> 0,
                     quantity_allocated |-> 0, unit_cost |-> None,
                     total_value |-> None])}
    /\ UNCHANGED <<docVars, location, lastSave, refVars>>

\* StockViewSet.partial_update of quantity_available
ProductStockPatch ==
  \E r \in stock, q \in 0..(MaxQty + 1) :
    /\ stock' = (stock \ {r}) \cup
                  {StockSave(StockPatched(r, "quantity_available", q))}
    /\ UNCHANGED <<docVars, location, lastSave, refVars>>

\* ProductViewSet.destroy: on_delete=CASCADE of Stock.product and of
\* StockBuffer.product.
ProductDestroy ==
  \E p \in product :
    /\ product' = product \ {p}
    /\ stock' = {r \in stock : r.product # p.id}
    /\ buffer' = {b \in buffer : b.product # p.id}
    /\ UNCHANGED <<docVars, location, lastSave, movement, users, gone, category,
                   settings, cache, mock, answer>>

\* product__reorder_point of stock row r
ReorderPoint(r) == (CHOOSE p \in product : p.id = r.product).reorder_point

\* The fields and relations a lookup on Stock can name: its columns, its
\* foreign keys and the reverse relations of other models to Stock.
StockLookups ==
  {"product", "warehouse", "location", "quantity_available",
   "quantity_reserved", "quantity_allocated", "lot_number", "expiry_date",
   "manufacturing_date", "unit_cost", "total_value"}

\* StockViewSet.low_stock: filter() resolves the names of its lookups and
\* raises FieldError on stock_buffers, which is a relation of Warehouse.
LowStock ==
  /\ IF "stock_buffers" \in StockLookups
     THEN answer' = Answer("low_stock", 200,
            {r.id : r \in {s \in stock :
               \/ s.quantity_available <= ReorderPoint(s)
               \/ \E b \in buffer : b.product = s.product
                    /\ s.quantity_available <= b.minimum_quantity}})
     ELSE answer' = Answer("low_stock", 500, {})
  /\ UNCHANGED <<docVars, stock, location, lastSave, product, buffer, movement,
                 users, gone, category, settings, cache, mock>>

\* analytics low_stock_report: one entry for every row at or below the
\* reorder point of its product.
LowStockReport ==
  /\ answer' = Answer("low_stock_report", 200,
       {r.id : r \in {s \in stock : s.quantity_available <= ReorderPoint(s)}})
  /\ UNCHANGED <<docVars, stock, location, lastSave, product, buffer, movement,
                 users, gone, category, settings, cache, mock>>

NextLowStock ==
  \/ ProductPost \/ ProductPatch \/ ProductDestroy
  \/ BufferPost \/ BufferDestroy
  \/ ProductStockPost \/ ProductStockPatch
  \/ LowStock \/ LowStockReport

SpecLowStock == Init /\ [][NextLowStock]_vars

(***************************************************************************)
(* Documents next to the stock ledger: stock rows are created, and an      *)
(* adjustment or a transfer is created and moved by its transitions.       *)
(***************************************************************************)
\* The request bodies that give a quantity_available and nothing else.
QuantityInputs ==
  {data \in StockInputs :
     /\ data.quantity_reserved = 0 /\ data.quantity_allocated = 0
     /\ data.unit_cost = None /\ data.total_value = None}

LedgerStockPost == \E data \in QuantityInputs : StockCreate(data)

LedgerPost ==
  \E t \in {"Adjustment", "Transfer"} :
    /\ db = {}
    /\ nextId <= MaxLives
    /\ BeginCreate(1, t, 1, DefaultPayload(t))

NextLedger ==
  \/ LedgerStockPost
  \/ LedgerPost
  \/ LifeInsert
  \/ LifeAdjustment
  \/ LifeTransfer

SpecLedger == Init /\ [][NextLedger]_vars

(***************************************************************************)
(* Accounts: the user list and detail views.  A request is a record of the *)
(* view action, the key of the caller, the key in the URL and the body; a  *)
(* view is an operator from the request and the rows of the User table to  *)
(* the answer and to the rows afterwards.                                  *)
(***************************************************************************)
Roles == {"admin", "warehouse_manager", "viewer"}

\* User.assigned_warehouse: null or the key of a warehouse.
WarehouseInputs == {None, Some(1), Some(2)}

Emails == {"a@wh", "b@wh"}

UserFields == {"role", "assigned_warehouse", "email"}

UserFieldInputs(f) ==
  CASE f = "role"               -> Roles
    [] f = "assigned_warehouse" -> WarehouseInputs
    [] f = "email"              -> Emails

\* The requests of caller c: list, create, retrieve, update, destroy.
UserRequests(c) ==
  {[op |-> "list", caller |-> c, id |-> 0, field |-> Null, value |-> Null]}
    \cup {[op |-> "create", caller |-> c, id |-> 0, field |-> Null, value |-> v] :
            v \in [role : Roles, assigned_warehouse : WarehouseInputs, email : Emails]}
    \cup {[op |-> o, caller |-> c, id |-> i, field |-> Null, value |-> Null] :
            o \in {"retrieve", "destroy"}, i \in 1..MaxAccounts}
    \cup UNION {{[op |-> "update", caller |-> c, id |-> i, field |-> f, value |-> v] :
                   i \in 1..MaxAccounts, v \in UserFieldInputs(f)} : f \in UserFields}

\* request.user
Caller(req, rows) == CHOOSE u \in rows : u.id = req.caller

\* User.is_admin
IsAdmin(u) == u.role = "admin"

\* User.is_warehouse_manager
IsWarehouseManager(u) == u.role \in {"admin", "warehouse_manager"}

\* UserListCreateView.get_queryset
ListQueryset(c, rows) ==
  IF ~IsAdmin(c)
  THEN {u \in rows : u.assigned_warehouse = c.assigned_warehouse}
  ELSE rows

\* UserDetailView.get_queryset
DetailQuerysetAll(c, rows) == rows

DetailQueryset(c, rows) ==
  IF ~IsWarehouseManager(c)
  THEN {u \in rows : u.id = c.id}
  ELSE rows

\* UniqueValidator of email: no row other than the instance carries it.
EmailFree(email, id, rows) == \A u \in rows : u.id = id \/ u.email # email

\* The row of the instance after serializer.update of one field.
UserPatched(u, f, v) ==
  CASE f = "role"               -> [u EXCEPT !.role = v]
    [] f = "assigned_warehouse" -> [u EXCEPT !.assigned_warehouse = v]
    [] f = "email"              -> [u EXCEPT !.email = v]

\* The status code and the rows in the body of the answer to req.
UserAnswer(req, rows) ==
  LET c  == Caller(req, rows)
      qs == DetailQueryset(c, rows)
      found == \E u \in qs : u.id = req.id
      inst == CHOOSE u \in qs : u.id = req.id
  IN  CASE req.op = "list" ->
             [code |-> 200, items |-> ListQueryset(c, rows)]
        [] req.op = "create" ->
             IF EmailFree(req.value.email, 0, rows)
             THEN [code |-> 201,
                   items |-> {[id |-> FreshId(rows), role |-> req.value.role,
                               assigned_warehouse |-> req.value.assigned_warehouse,
                               email |-> req.value.email]}]
             ELSE [code |-> 400, items |-> {}]
        [] req.op = "retrieve" ->
             IF found THEN [code |-> 200, items |-> {inst}]
             ELSE [code |-> 404, items |-> {}]
        [] req.op = "update" ->
             IF ~found THEN [code |-> 404, items |-> {}]
             ELSE IF req.field = "email" /\ ~EmailFree(req.value, inst.id, rows)
             THEN [code |-> 400, items |-> {}]
             ELSE [code |-> 200, items |-> {UserPatched(inst, req.field, req.value)}]
        [] req.op = "destroy" ->
             IF found THEN [code |-> 204, items |-> {}]
             ELSE [code |-> 404, items |-> {}]

\* The rows of the User table after req.
UsersAfter(req, rows) ==
  LET a == UserAnswer(req, rows)
  IN  CASE a.code = 201 -> rows \cup a.items
        [] a.code = 200 /\ req.op = "update" ->
             {u \in rows : u.id # req.id} \cup a.items
        [] a.code = 204 -> {u \in rows : u.id # req.id}
        [] OTHER -> rows

\* manage.py createsuperuser, on an empty table: UserManager.create_superuser
CreateSuperuser ==
  \E e \in Emails :
    /\ users = {}
    /\ users' = {[id |-> 1, role |-> "admin", assigned_warehouse |-> None,
                  email |-> e]}
    /\ UNCHANGED <<docVars, stock, location, lastSave, product, buffer, movement,
                   gone, category, settings, cache, mock, answer>>

\* A request of an authenticated caller on the user views.
UserRequest ==
  \E c \in users :
    \E req \in UserRequests(c.id) :
      /\ req.op = "create" => FreshId(users) <= MaxAccounts
      /\ users' = UsersAfter(req, users)
      /\ answer' = [n |-> 1 - answer.n, op |-> req.op, req |-> req,
                    code |-> UserAnswer(req, users).code,
                    items |-> UserAnswer(req, users).items]
      /\ UNCHANGED <<docVars, stock, location, lastSave, product, buffer, movement,
                     gone, category, settings, cache, mock>>

NextAccounts == CreateSuperuser \/ UserRequest

SpecAccounts == Init /\ [][NextAccounts]_vars

(***************************************************************************)
(* Mock data: the lists made by initialize_mock_data() and the users and   *)
(* products endpoints with their limit, offset and search parameters.      *)
(***************************************************************************)
\* str.lower(), on the capitals that occur in the mock data.
LowerOf ==
  [c \in {"A", "B", "D", "I", "K", "P", "S", "T", "U", "V"} |->
     CASE c = "A" -> "a" [] c = "B" -> "b" [] c = "D" -> "d" [] c = "I" -> "i"
       [] c = "K" -> "k" [] c = "P" -> "p" [] c = "S" -> "s" [] c = "T" -> "t"
       [] c = "U" -> "u" [] c = "V" -> "v"]

Lower(s) ==
  [i \in 1..Len(s) |-> IF s[i] \in DOMAIN LowerOf THEN LowerOf[s[i]] ELSE s[i]]

\* p in s
Contains(s, p) ==
  \E i \in 0..(Len(s) - Len(p)) : SubSeq(s, i + 1, i + Len(p)) = p

\* str.strip(), for blanks
RECURSIVE Strip(_)
Strip(s) ==
  IF Len(s) = 0 THEN s
  ELSE IF s[1] = " " THEN Strip(Tail(s))
  ELSE IF s[Len(s)] = " " THEN Strip(SubSeq(s, 1, Len(s) - 1))
  ELSE s

\* The roles, departments, categories and suppliers the generator draws
\* from, each a part of the list in the source.
RolesDrawn == {<<"A", "d", "m", "i", "n">>, <<"V", "i", "e", "w", "e", "r">>}
DepartmentsDrawn == {<<"I", "T">>}
CategoriesDrawn == {<<"B", "o", "o", "k", "s">>, <<"T", "o", "o", "l", "s">>}
SuppliersDrawn == {<<"S", "u", "p", "p", "l", "i", "e", "r", " ", "1">>}

\* _generate_users(count), with the roles and departments drawn
GeneratedUsers(roles, departments) ==
  [i \in 1..MockCount |->
     [id |-> i,
      name |-> <<"U", "s", "e", "r", " ">> \o Str(i),
      email |-> <<"u", "s", "e", "r">> \o Str(i)
                  \o <<"@", "e", "x", "a", "m", "p", "l", "e", ".", "c", "o", "m">>,
      role |-> roles[i],
      department |-> departments[i]]]

\* _generate_products(count), with the categories and suppliers drawn
GeneratedProducts(categories, suppliers) ==
  [i \in 1..MockCount |->
     [id |-> i,
      sku |-> <<"S", "K", "U", "-">> \o ZeroPad(Str(i), SkuWidth),
      name |-> <<"P", "r", "o", "d", "u", "c", "t", " ">> \o Str(i),
      category |-> categories[i],
      supplier |-> suppliers[i]]]

\* MockDataConfig.ready(): initialize_mock_data(), once.
InitializeMockData ==
  /\ ~mock.ready
  /\ \E roles \in [1..MockCount -> RolesDrawn],
        departments \in [1..MockCount -> DepartmentsDrawn],
        categories \in [1..MockCount -> CategoriesDrawn],
        suppliers \in [1..MockCount -> SuppliersDrawn] :
       mock' = [ready |-> TRUE,
                users |-> GeneratedUsers(roles, departments),
                products |-> GeneratedProducts(categories, suppliers)]
  /\ settings' = DefaultSettings
  /\ UNCHANGED <<docVars, stock, location, lastSave, product, buffer, movement,
                 users, gone, category, cache, answer>>

\* The index a slice bound b stands for in a list of n items.
SliceBound(b, n) ==
  IF b < 0 THEN (IF b + n < 0 THEN 0 ELSE b + n)
  ELSE (IF b > n THEN n ELSE b)

\* items[lo:hi]
Slice(items, lo, hi) ==
  SubSeq(items, SliceBound(lo, Len(items)) + 1, SliceBound(hi, Len(items)))

\* The body of get_users and of get_products after the search.
Page(filtered, limit, offset) ==
  [data |-> Slice(filtered, offset, offset + limit),
   total |-> Len(filtered), limit |-> limit, offset |-> offset]

\* The test of the list comprehension of get_users
UserMatches(u, search_lower) ==
  \/ Contains(Lower(u.name), search_lower)
  \/ Contains(Lower(u.email), search_lower)
  \/ Contains(Lower(u.role), search_lower)
  \/ Contains(Lower(u.department), search_lower)

\* The test of the list comprehension of get_products
ProductMatches(p, search_lower) ==
  \/ Contains(Lower(p.sku), search_lower)
  \/ Contains(Lower(p.name), search_lower)
  \/ Contains(Lower(p.category), search_lower)
  \/ Contains(Lower(p.supplier), search_lower)

\* filtered_users of get_users
FilteredUsers(search) ==
  IF search # <<>>
  THEN SelectSeq(mock.users, LAMBDA u : UserMatches(u, Lower(search)))
  ELSE mock.users

\* filtered_products of get_products
FilteredProducts(search) ==
  IF search # <<>>
  THEN SelectSeq(mock.products, LAMBDA p : ProductMatches(p, Lower(search)))
  ELSE mock.products

get_users(limit, offset, search) == Page(FilteredUsers(search), limit, offset)

get_products(limit, offset, search) == Page(FilteredProducts(search), limit, offset)

\* A query parameter that is to be an integer: absent, an integer, or a
\* text int() raises on.
IntParams(values) ==
  {[given |-> FALSE, numeric |-> TRUE, val |-> 0],
   [given |-> TRUE, numeric |-> FALSE, val |-> 0]}
    \cup {[given |-> TRUE, numeric |-> TRUE, val |-> v] : v \in values}

LimitParams == IntParams({-1} \cup (1..MockCount) \cup {LimitCap + 1})

OffsetParams == {p \in IntParams(-1..(MockCount - 1)) : p.numeric}

\* The search terms of the requests.
SearchParams ==
  {<<>>, <<"U", "S", "E", "R">>, <<" ", "a", "d", "m", "i", "n">>,
   <<"t", "o", "o", "l">>}

\* int(request.GET.get(name, default))
IntOf(param, default) == IF param.given THEN param.val ELSE default

Min(a, b) == IF a < b THEN a ELSE b

Max(a, b) == IF a > b THEN a ELSE b

\* users_api and products_api: the try block, and the except branch when
\* int() raises.
MockList(op, result(_, _, _), limit, offset, search) ==
  IF limit.numeric /\ offset.numeric
  THEN [n |-> 1 - answer.n, op |-> op,
        req |-> [limit |-> limit, offset |-> offset, search |-> search],
        code |-> 200,
        data |-> result(Min(IntOf(limit, DefaultLimit), LimitCap),
                        Max(IntOf(offset, 0), 0), Strip(search))]
  ELSE [n |-> 1 - answer.n, op |-> op,
        req |-> [limit |-> limit, offset |-> offset, search |-> search],
        code |-> 500, data |-> <<>>]

users_api ==
  \E limit \in LimitParams, offset \in OffsetParams, search \in SearchParams :
    /\ mock.ready
    /\ answer' = MockList("users_api", get_users, limit, offset, search)
    /\ UNCHANGED <<docVars, stock, location, lastSave, product, buffer, movement,
                   users, gone, category, settings, cache, mock>>

products_api ==
  \E limit \in LimitParams, offset \in OffsetParams, search \in SearchParams :
    /\ mock.ready
    /\ answer' = MockList("products_api", get_products, limit, offset, search)
    /\ UNCHANGED <<docVars, stock, location, lastSave, product, buffer, movement,
                   users, gone, category, settings, cache, mock>>

NextMock == InitializeMockData \/ users_api \/ products_api

SpecMock == Init /\ [][NextMock]_vars

(***************************************************************************)
(* Mock settings: the cached GET, the update, the cache.                   *)
(***************************************************************************)
\* The bodies of the update request: text that is no JSON, or a JSON
\* object whose 'settings' gives values to some of the sections.
SettingsBodies ==
  {[json |-> FALSE, settings |-> <<>>]}
    \cup {[json |-> TRUE, settings |-> s] :
            s \in UNION {[K -> SettingValues] : K \in SUBSET SettingKeys}}

\* dict.update
Updated(old, new) ==
  [k \in SettingKeys |-> IF k \in DOMAIN new THEN new[k] ELSE old[k]]

\* settings_api under cache_page(CACHE_TIMEOUT): the stored response of
\* the URL while there is one, and otherwise the view, whose response is
\* stored.
settings_api ==
  /\ mock.ready
  /\ IF cache.settings_api # None
     THEN /\ answer' = [n |-> 1 - answer.n, op |-> "settings_api", code |-> 200,
                        data |-> cache.settings_api[1]]
          /\ UNCHANGED cache
     ELSE /\ answer' = [n |-> 1 - answer.n, op |-> "settings_api", code |-> 200,
                        data |-> settings]
          /\ cache' = [cache EXCEPT !.settings_api = Some(settings)]
  /\ UNCHANGED <<docVars, stock, location, lastSave, product, buffer, movement,
                 users, gone, category, settings, mock>>

\* update_settings_api: data_generator.update_settings(settings_data)
update_settings_api ==
  \E body \in SettingsBodies :
    /\ mock.ready
    /\ IF body.json /\ DOMAIN body.settings # {}
       THEN /\ settings' = Updated(settings, body.settings)
            /\ answer' = [n |-> 1 - answer.n, op |-> "update_settings_api",
                          code |-> 200, data |-> Updated(settings, body.settings)]
       ELSE /\ answer' = [n |-> 1 - answer.n, op |-> "update_settings_api",
                          code |-> 400, data |-> settings]
            /\ UNCHANGED settings
    /\ UNCHANGED <<docVars, stock, location, lastSave, product, buffer, movement,
                   users, gone, category, cache, mock>>

\* invalidate_cache: cache.clear()
invalidate_cache ==
  /\ mock.ready
  /\ cache' = NoCache
  /\ answer' = [n |-> 1 - answer.n, op |-> "invalidate_cache", code |-> 200,
                data |-> settings]
  /\ UNCHANGED <<docVars, stock, location, lastSave, product, buffer, movement,
                 users, gone, category, settings, mock>>

\* CACHE_TIMEOUT seconds have passed since the response was stored.
CacheTimeout ==
  /\ cache.settings_api # None
  /\ cache' = NoCache
  /\ UNCHANGED <<docVars, stock, location, lastSave, product, buffer, movement,
                 users, gone, category, settings, mock, answer>>

NextSettings ==
  InitializeMockData \/ settings_api \/ update_settings_api \/ invalidate_cache \/ CacheTimeout

SpecSettings == Init /\ [][NextSettings]_vars

(***************************************************************************)
(* The approval of an adjustment under approve calls, generic updates,     *)
(* deletes and the deletion of user accounts.                              *)
(***************************************************************************)
\* The accounts that still exist.
Present == Users \ gone

\* adjusted_by of an adjustment: AdjustmentSerializer.create stores the
\* caller of the POST, and the adjustments below are all posted by user 1.
AdjustedBy(d) == 1

\* adjusted_by is on_delete=PROTECT: the account cannot be deleted while
\* an adjustment names it.
Protected(u) == \E d \in db : d.type = "Adjustment" /\ AdjustedBy(d) = u

\* approved_by and the other user references of ByFields are
\* on_delete=SET_NULL: deleting the account empties them.
SetNull(d, u) == [d EXCEPT !.by = [f \in ByFields |->
                                     IF d.by[f] = Some(u) THEN None ELSE d.by[f]]]

\* DELETE /api/auth/users/{u}/ by user u: UserDetailView shows every caller
\* the own account, and destroy deletes it.
UserDestroy(u) ==
  /\ u \in Present
  /\ IF Protected(u)
     THEN /\ resp' = Response("destroy", "User", u, u, 500)
          /\ UNCHANGED <<db, gone>>
     ELSE /\ resp' = Response("destroy", "User", u, u, 204)
          /\ db' = {SetNull(d, u) : d \in db}
          /\ gone' = gone \cup {u}
  /\ trail' = Trailed("destroy", "User", u, u)
  /\ UNCHANGED <<nextId, year, now, proc, issued, stock, location, lastSave,
                 product, buffer, movement, users, category, settings, cache,
                 mock, answer>>

\* POST /api/inventory/adjustments/ by user 1; approved_by is writable.
ApprovedPost ==
  \E data \in Payloads("Adjustment", Present) :
    /\ db = {}
    /\ nextId <= MaxLives
    /\ 1 \in Present
    /\ BeginCreate(1, "Adjustment", 1, data)

ApprovedInsert == FinishCreate(1)

ApprovedApprove ==
  \E id \in Ids, u \in Present, h \in LifeHosts : AdjustmentApprove(id, u, h)

ApprovedPatch ==
  \E id \in Ids, u \in Present, v \in {None} \cup {Some(w) : w \in Present} :
    UpdateBy("Adjustment", id, u, "approved_by", v)

ApprovedDestroy == \E id \in Ids, u \in Present : Delete("Adjustment", id, u)

ApprovedUserDestroy == \E u \in Users : UserDestroy(u)

NextApproved ==
  \/ ApprovedPost
  \/ ApprovedInsert
  \/ ApprovedApprove
  \/ ApprovedPatch
  \/ ApprovedDestroy
  \/ ApprovedUserDestroy

SpecApproved == Init /\ [][NextApproved]_vars

(***************************************************************************)
(* Category: create, update, retrieve and delete through CategoryViewSet;  *)
(* the full_path property.                                                 *)
(***************************************************************************)
\* name: a text; the column is unique.
CategoryNames == {"A", "B"}

\* parent in a request body: null or a primary key.
ParentInputs == {None} \cup {Some(k) : k \in 1..MaxCategories}

\* The Category row with primary key id.
CategoryRow(id, rows) == CHOOSE c \in rows : c.id = id

\* PrimaryKeyRelatedField(queryset=Category.objects.all()): the key must be
\* the one of a stored category; nothing else is asked of it.
ParentValid(parent, rows) ==
  parent = None \/ \E c \in rows : c.id = parent[1]

\* UniqueValidator of name: no other row carries it.
NameFree(name, id, rows) == \A c \in rows : c.id # id => c.name # name

\* Category.full_path of row c: the full_path of the parent, ' > ' and the
\* name, or the name alone for a row with no parent.  A chain of parents
\* longer than the table has come back to a row it has visited; the
\* recursion then never reaches a row without a parent and ends in a
\* RecursionError.
RECURSIVE PathFrom(_, _, _)
PathFrom(c, rows, depth) ==
  IF depth > Cardinality(rows) THEN [raised |-> TRUE, text |-> ""]
  ELSE IF c.parent # None
       THEN LET up == PathFrom(CategoryRow(c.parent[1], rows), rows, depth + 1)
            IN  IF up.raised THEN up
                ELSE [raised |-> FALSE, text |-> up.text \o " > " \o c.name]
       ELSE [raised |-> FALSE, text |-> c.name]

full_path(c, rows) == PathFrom(c, rows, 1)

\* serializer.data of row id: CategorySerializer renders full_path, and the
\* exception of the property turns the response into a 500.
CategoryAnswer(op, id, rows, code) ==
  LET path == full_path(CategoryRow(id, rows), rows)
  IN  [n |-> 1 - answer.n, op |-> op, id |-> id,
       code |-> IF path.raised THEN 500 ELSE code, full_path |-> path.text]

\* A response that renders no row.
CategoryPlain(op, id, code) ==
  [n |-> 1 - answer.n, op |-> op, id |-> id, code |-> code, full_path |-> ""]

\* What a request on the categories leaves alone.
CategoryFrame ==
  UNCHANGED <<docVars, stock, location, lastSave, product, buffer, movement,
              users, gone, settings, cache, mock>>

\* POST /api/master/categories/
CategoryPost ==
  \E name \in CategoryNames, parent \in ParentInputs :
    /\ FreshId(category) <= MaxCategories
    /\ IF NameFree(name, 0, category) /\ ParentValid(parent, category)
       THEN LET id == FreshId(category)
                rows == category \cup {[id |-> id, name |-> name, parent |-> parent]}
            IN  /\ category' = rows
                /\ answer' = CategoryAnswer("create", id, rows, 201)
       ELSE /\ answer' = CategoryPlain("create", 0, 400)
            /\ UNCHANGED category
    /\ CategoryFrame

\* PATCH /api/master/categories/{id}/ with a parent or a name: the row is
\* written by serializer.save() before the response renders it.
CategoryPatch ==
  \E c \in category :
    /\ \/ \E parent \in ParentInputs :
            IF ParentValid(parent, category)
            THEN LET rows == (category \ {c}) \cup {[c EXCEPT !.parent = parent]}
                 IN  /\ category' = rows
                     /\ answer' = CategoryAnswer("partial_update", c.id, rows, 200)
            ELSE /\ answer' = CategoryPlain("partial_update", c.id, 400)
                 /\ UNCHANGED category
       \/ \E name \in CategoryNames :
            IF NameFree(name, c.id, category)
            THEN LET rows == (category \ {c}) \cup {[c EXCEPT !.name = name]}
                 IN  /\ category' = rows
                     /\ answer' = CategoryAnswer("partial_update", c.id, rows, 200)
            ELSE /\ answer' = CategoryPlain("partial_update", c.id, 400)
                 /\ UNCHANGED category
    /\ CategoryFrame

\* GET /api/master/categories/{id}/
CategoryRetrieve ==
  \E c \in category :
    /\ answer' = CategoryAnswer("retrieve", c.id, category, 200)
    /\ UNCHANGED category
    /\ CategoryFrame

\* The keys of the rows that a delete of the rows ids takes along: parent
\* is on_delete=CASCADE.
RECURSIVE Cascade(_, _)
Cascade(ids, rows) ==
  LET more == ids \cup {c.id : c \in {e \in rows : e.parent # None /\ e.parent[1] \in ids}}
  IN  IF more = ids THEN ids ELSE Cascade(more, rows)

\* DELETE /api/master/categories/{id}/
CategoryDestroy ==
  \E c \in category :
    /\ category' = {e \in category : e.id \notin Cascade({c.id}, category)}
    /\ answer' = CategoryPlain("destroy", c.id, 204)
    /\ CategoryFrame

NextCategory == CategoryPost \/ CategoryPatch \/ CategoryRetrieve \/ CategoryDestroy

SpecCategory == Init /\ [][NextCategory]_vars

(***************************************************************************)
(* The transition actions as a relation on the statuses.                   *)
(***************************************************************************)
\* The transition actions of each view set and the status each assigns.
StatusWritten(t) ==
  CASE t = "Adjustment" -> {}
    [] t = "Transfer"   -> {<<"approve", "approved">>, <<"execute", "completed">>}
    [] t = "Receiving"  -> {<<"inspect", "inspected">>, <<"approve", "approved">>,
                            <<"reject", "rejected">>}
    [] t = "Shipment"   -> {<<"pack", "packed">>, <<"ship", "shipped">>,
                            <<"deliver", "delivered">>}
    [] t = "Return"     -> {<<"inspect", "inspected">>, <<"approve", "approved">>,
                            <<"process", "processed">>}
    [] t = "Order"      -> {<<"confirm", "confirmed">>, <<"process", "processing">>,
                            <<"ship", "shipped">>, <<"deliver", "delivered">>}

\* The test of the status action op makes before it writes: the two
\* actions of the transfers test it, the others write whatever it is.
TransitionAllowed(t, op, status) ==
  IF t = "Transfer"
  THEN IF op = "approve" THEN TransferApproveAllowed([status |-> status])
       ELSE TransferExecuteAllowed([status |-> status])
  ELSE TRUE

\* The statuses one transition action can put in the place of status from.
StatusStep(t, from) ==
  {w[2] : w \in {x \in StatusWritten(t) : TransitionAllowed(t, x[1], from)}}

\* The statuses that sequences of transition actions lead to from those
\* of S.
RECURSIVE Reachable(_, _)
Reachable(t, S) ==
  LET more == S \cup UNION {StatusStep(t, s) : s \in S}
  IN  IF more = S THEN S ELSE Reachable(t, more)

(***************************************************************************)
(* Claims about the number generator.                                      *)
(***************************************************************************)
\* The numeric value of the sequence part of a number.
SeqOf(n) == ParseInt(LastSegment(n))

\* The numerically highest sequence among the numbers of table t in year y,
\* 0 when there is none.
HighestSeq(t, y, rows) ==
  LET seqs == {SeqOf(n) : n \in {m \in Numbers(t, rows) :
                                   StartsWith(m, YearPrefix(t, y))}}
  IN  IF seqs = {} THEN 0 ELSE CHOOSE k \in seqs : \A j \in seqs : j <= k

\* C1: documents of one type created one after another in one year, with
\* no deletion and no concurrent request, all get stored, and the k-th of
\* them carries PREFIX-YEAR-k (k zero-padded), for every number of them.
C1_SequentialNumbers ==
  [][\A p \in Procs :
       (proc[p] # Idle /\ proc'[p] = Idle) =>
         \E d \in db' \ db :
           d.no = YearPrefix(d.type, year) \o Format03d(Cardinality(db) + 1)]_vars

\* C2: the number a creation computes has as its sequence part 1 + the
\* numerically highest sequence among the existing numbers of its prefix
\* and year, and 1 when there is none.
C2_NextAfterNumericHighest ==
  \A p \in Procs :
    proc[p] # Idle =>
      proc[p].row.no =
        YearPrefix(proc[p].row.type, year)
          \o Format03d(HighestSeq(proc[p].row.type, year, db) + 1)

\* ^(ADJ|TRF|RCV|SHP|RTN|ORD)-\d{4}-\d{3}$
MatchesPattern(n) ==
  /\ Len(n) = 12
  /\ \E t \in DocTypes : SubSeq(n, 1, 3) = Prefix(t)
  /\ n[4] = "-"
  /\ \A i \in 5..8 : IsDigit(n[i])
  /\ n[9] = "-"
  /\ \A i \in 10..12 : IsDigit(n[i])

\* C6: every stored number is PREFIX-YYYY-NNN with exactly three digits in
\* NNN, however many documents the prefix and year have.
C6_ThreeDigitPattern == \A d \in db : MatchesPattern(d.no)

(***************************************************************************)
(* Claims about numbering under concurrent requests and deletion.          *)
(***************************************************************************)
InFlight(p) == proc[p] # Idle

\* The number request p carries is already the number of a stored row.
Taken(p) ==
  \E d \in db : d.type = proc[p].row.type /\ d.no = proc[p].row.no

\* C3: number generation is a read followed, later, by a write.  The row a
\* request writes carries the number it read before, whatever was stored in
\* between; so the later of two requests that read the same last number
\* does not get the next number: its number is the one the earlier request
\* stored, and its creation fails and stores nothing.
C3_RaceGivesDuplicateNotNext ==
  [][\A p \in Procs :
       (InFlight(p) /\ ~InFlight(p)') =>
         /\ Taken(p) => (db' = db /\ resp'.code = 500)
         /\ ~Taken(p) => (\E d \in db' \ db : d.no = proc[p].row.no)]_vars

\* Two requests read the same last number; one has stored its row, and the
\* other is about to write a row with the same number.
C3_Witness == \E p \in Procs : InFlight(p) /\ Taken(p)

\* C4: no two stored rows of one table carry the same number.
C4_NumbersUnique ==
  \A d \in db, e \in db :
    (d.type = e.type /\ d.id # e.id) => d.no # e.no

\* A creation whose number was stored by another request in the meantime
\* was refused and the table still holds the number once.
C4_Witness ==
  /\ resp.op = "create" /\ resp.code = 500
  /\ \E d \in db : d.type = resp.type

\* C5: a number that was once stored is never the number of a row created
\* later, over any run of creations and deletions.
C5_NeverReused ==
  [][\A d \in db' \ db : <<d.type, d.no>> \notin issued]_vars

(***************************************************************************)
(* Claims about the requests on an existing row.                           *)
(***************************************************************************)
\* The step is the response to request op on a row of table t.
Answers(op, t) ==
  /\ resp'.n # resp.n
  /\ resp'.op = op
  /\ resp'.type = t

\* C7: every stored row carries a number, and no step changes the number
\* of a row it keeps: not a generic update, not a transition action, in
\* the year of its creation or a later one.
C7_NumberImmutable ==
  [][/\ \A e \in db' : e.no # <<>>
     /\ \A d \in db :
          ExistsIn(db', d.type, d.id) => RowIn(db', d.type, d.id).no = d.no]_vars

\* A transition action wrote a row in a year after the year of its number.
C7_Witness ==
  /\ resp.op \notin {Null, "create", "destroy", "update"}
  /\ resp.code \in {200, 500}
  /\ \E d \in db :
       /\ d.type = resp.type /\ d.id = resp.id
       /\ d.status # DefaultStatus(d.type)
       /\ \E f \in AtFields : d.at[f] # None
       /\ ~StartsWith(d.no, YearPrefix(d.type, year))

\* C8: approve of a transfer answers 200 only if the transfer was pending;
\* on a transfer in any other status it answers 400 and writes nothing.
C8_ApproveOnlyPending ==
  [][Answers("approve", "Transfer") =>
       LET d == Row("Transfer", resp'.id)
       IN  /\ resp'.code = 200 => d.status = "pending"
           /\ d.status # "pending" => (resp'.code = 400 /\ db' = db)]_vars

\* approve was refused on a transfer that is not pending.
C8_Witness ==
  /\ resp.op = "approve" /\ resp.type = "Transfer" /\ resp.code = 400
  /\ Exists("Transfer", resp.id)
  /\ Row("Transfer", resp.id).status # "pending"

\* approved_at and transferred_at are written by approve and execute only
\* (the serializer has them read-only), so they tell whether the transfer
\* was approved or executed before.
WasApproved(d) == d.at["approved_at"] # None
WasExecuted(d) == d.at["transferred_at"] # None

\* C9: execute of a transfer answers 200 only if the transfer was approved,
\* and in any other status answers 400 and writes nothing; no transfer is
\* completed that was never approved, and none is executed a second time.
C9_ExecuteOnlyApprovedOnce ==
  [][/\ Answers("execute", "Transfer") =>
          LET d == Row("Transfer", resp'.id)
          IN  /\ resp'.code = 200 => (d.status = "approved" /\ ~WasExecuted(d))
              /\ d.status # "approved" => (resp'.code = 400 /\ db' = db)
     /\ \A e \in db' :
          (e.type = "Transfer" /\ e.status = "completed") => WasApproved(e)]_vars

\* C10: after create, approve, execute on a new transfer, in this order and
\* with no other request on it in between, the stored transfer is completed,
\* approved_by and transferred_by are the callers of approve and of execute,
\* and approved_at and transferred_at are the times of these two requests.
C10_CreateApproveExecute ==
  (trail.type = "Transfer" /\ Len(trail.ops) = 3) =>
    /\ Exists("Transfer", trail.id)
    /\ LET d == Row("Transfer", trail.id)
       IN  /\ d.status = "completed"
           /\ d.by["approved_by"] = Some(trail.ops[2].user)
           /\ d.by["transferred_by"] = Some(trail.ops[3].user)
           /\ d.at["approved_at"] = Some(trail.ops[2].time)
           /\ d.at["transferred_at"] = Some(trail.ops[3].time)

\* C11: the first approve of an adjustment nobody approved stores the
\* caller as approved_by; approve of an adjustment that has an approver
\* answers 400 and writes nothing, whoever calls.
C11_AdjustmentApproveOnce ==
  [][Answers("approve", "Adjustment") =>
       LET d == Row("Adjustment", resp'.id)
       IN  /\ d.by["approved_by"] = None =>
                RowIn(db', "Adjustment", d.id).by["approved_by"] = Some(resp'.user)
           /\ d.by["approved_by"] # None => (resp'.code = 400 /\ db' = db)]_vars

(***************************************************************************)
(* Claims about the state machines of the documents.                       *)
(***************************************************************************)
\* The view actions that are transitions.
TransitionOps == {"approve", "execute", "inspect", "reject", "pack", "ship",
                  "deliver", "confirm", "process"}

\* The status the state-machine table requires before transition op of a
\* document of type t.
PriorStatus(t, op) ==
  CASE t = "Receiving" /\ op = "inspect" -> "received"
    [] t = "Receiving" /\ op = "approve" -> "inspected"
    [] t = "Receiving" /\ op = "reject"  -> "inspected"
    [] t = "Shipment"  /\ op = "pack"    -> "draft"
    [] t = "Shipment"  /\ op = "ship"    -> "packed"
    [] t = "Shipment"  /\ op = "deliver" -> "shipped"
    [] t = "Return"    /\ op = "inspect" -> "received"
    [] t = "Return"    /\ op = "approve" -> "inspected"
    [] t = "Return"    /\ op = "process" -> "approved"
    [] t = "Order"     /\ op = "confirm" -> "pending"
    [] t = "Order"     /\ op = "process" -> "confirmed"
    [] t = "Order"     /\ op = "ship"    -> "processing"
    [] t = "Order"     /\ op = "deliver" -> "shipped"

\* C12: a transition of a receiving, shipment, return or order called on a
\* document that is not in the status the table requires before it answers
\* 400 and writes nothing.
C12_TransitionsGated ==
  [][\A t \in {"Receiving", "Shipment", "Return", "Order"} :
       (resp'.n # resp.n /\ resp'.type = t /\ resp'.op \in TransitionOps) =>
         (Row(t, resp'.id).status # PriorStatus(t, resp'.op) =>
            (resp'.code = 400 /\ db' = db))]_vars

\* The terminal statuses of the table.
TerminalStatuses(t) ==
  CASE t = "Adjustment" -> {}
    [] t = "Transfer"   -> {"completed", "cancelled"}
    [] t = "Receiving"  -> {"approved", "rejected"}
    [] t = "Shipment"   -> {"delivered", "cancelled"}
    [] t = "Return"     -> {"processed", "rejected"}
    [] t = "Order"      -> {"delivered", "cancelled"}

\* C13: a transition called on a document in a terminal status leaves its
\* status as it is; one called on an approved adjustment leaves its approver.
C13_TerminalAbsorbing ==
  [][\A t \in DocTypes :
       (resp'.n # resp.n /\ resp'.type = t /\ resp'.op \in TransitionOps) =>
         LET d == Row(t, resp'.id)
             e == RowIn(db', t, resp'.id)
         IN  /\ d.status \in TerminalStatuses(t) => e.status = d.status
             /\ (t = "Adjustment" /\ d.by["approved_by"] # None) =>
                  e.by["approved_by"] = d.by["approved_by"]]_vars

\* The statuses of each type along its line of progress, first to last.
StateOrder(t) ==
  CASE t = "Adjustment" -> <<>>
    [] t = "Transfer"   -> <<"pending", "approved", "completed">>
    [] t = "Receiving"  -> <<"draft", "received", "inspected", "approved">>
    [] t = "Shipment"   -> <<"draft", "packed", "shipped", "delivered">>
    [] t = "Return"     -> <<"received", "inspected", "approved", "processed">>
    [] t = "Order"      -> <<"pending", "confirmed", "processing", "shipped",
                             "delivered">>

\* Status b comes before status a in the state order of type t.
Backwards(t, a, b) ==
  \E i, j \in 1..Len(StateOrder(t)) :
    StateOrder(t)[i] = a /\ StateOrder(t)[j] = b /\ j < i

\* C14: no transition moves the status of a document backwards along the
\* state order of its type.
C14_NeverBackwards ==
  [][\A t \in DocTypes :
       (resp'.n # resp.n /\ resp'.type = t /\ resp'.op \in TransitionOps) =>
         ~Backwards(t, Row(t, resp'.id).status, RowIn(db', t, resp'.id).status)]_vars

\* C15: the status of every stored transfer is one of the declared choices.
C15_TransferStatusDeclared ==
  \A d \in db : d.type = "Transfer" => d.status \in StatusChoices("Transfer")

\* C16: a document is created in the initial status of its type with no
\* approver or executor, and a generic update changes neither its status
\* nor these user references.
C16_OnlyTransitionsMutate ==
  [][\A t \in DocTypes :
       /\ (resp'.n # resp.n /\ resp'.type = t /\ resp'.op = "create") =>
            \A d \in db' \ db : d.status = DefaultStatus(t) /\ d.by = NoBy
       /\ (resp'.n # resp.n /\ resp'.type = t /\ resp'.op = "update") =>
            LET d == Row(t, resp'.id)
                e == RowIn(db', t, resp'.id)
            IN  e.status = d.status /\ e.by = d.by]_vars

\* C17: status and stamps agree in every stored document: a pending
\* transfer has no approver, executor or their times, a completed one has
\* both users, and an approved receiving or return has an inspector and
\* an approver.
C17_StatusAndStampsAgree ==
  \A d \in db :
    /\ (d.type = "Transfer" /\ d.status = "pending") =>
         /\ d.by["approved_by"] = None /\ d.at["approved_at"] = None
         /\ d.by["transferred_by"] = None /\ d.at["transferred_at"] = None
    /\ (d.type = "Transfer" /\ d.status = "completed") =>
         (d.by["approved_by"] # None /\ d.by["transferred_by"] # None)
    /\ (d.type \in {"Receiving", "Return"} /\ d.status = "approved") =>
         (d.by["inspected_by"] # None /\ d.by["approved_by"] # None)

(***************************************************************************)
(* Claims about computed columns.                                          *)
(***************************************************************************)
\* C19: every stored order has total_amount = subtotal + tax_amount +
\* shipping_amount - discount_amount, after its creation, a generic update
\* and every transition, whatever total_amount the request gave.
C19_OrderTotal ==
  \A d \in db :
    d.type = "Order" =>
      d.money["total_amount"] =
        d.money["subtotal"] + d.money["tax_amount"]
          + d.money["shipping_amount"] - d.money["discount_amount"]

\* An update was answered on the order with subtotal 100, tax 8, shipping 5
\* and discount 10 after a transition stamped it: its total is 103, none of
\* the totals a request can give.
C19_Witness ==
  /\ resp.op = "update" /\ resp.type = "Order"
  /\ \E d \in db :
       /\ d.type = "Order" /\ d.id = resp.id
       /\ d.status = "delivered"
       /\ d.money = [subtotal |-> 100, tax_amount |-> 8, shipping_amount |-> 5,
                     discount_amount |-> 10, total_amount |-> 103]

\* C18: every stored Stock row with a unit_cost has total_value =
\* unit_cost * (quantity_available + quantity_reserved + quantity_allocated),
\* also when the quantities are all 0.
C18_StockTotalValue ==
  \A r \in stock :
    r.unit_cost # None => r.total_value = Some(r.unit_cost[1] * QuantityTotal(r))

\* The parts of instance i that are given: the aisle when it is a
\* non-empty text, the rack, the bin, and the level when it is a number.
GivenParts(i) ==
  (IF i.aisle # None /\ i.aisle[1] # <<>> THEN <<i.aisle[1]>> ELSE <<>>)
    \o <<i.rack, i.bin>>
    \o (IF i.level # None THEN <<Str(i.level[1])>> ELSE <<>>)

\* C20: a location saved with no code is stored with the code made of its
\* given parts, aisle, rack, bin, level in this order, joined by '-'; one
\* saved with a code is stored with that code.
C20_LocationCode ==
  lastSave.stored =>
    IF lastSave.inst.code = <<>>
    THEN lastSave.row.code = Join(GivenParts(lastSave.inst))
    ELSE lastSave.row.code = lastSave.inst.code

(***************************************************************************)
(* Claims about the read requests.                                         *)
(***************************************************************************)
LowStockOps == {"low_stock", "low_stock_report"}

\* Stock row r is low: at or below the reorder point of its product, or at
\* or below the minimum of the buffer of its product.
IsLow(r, products, buffers) ==
  \/ \E p \in products : p.id = r.product /\ r.quantity_available <= p.reorder_point
  \/ \E b \in buffers :
       b.product = r.product /\ r.quantity_available <= b.minimum_quantity

\* C21: the stocks low_stock request and the analytics low-stock-report
\* each answer with exactly the Stock rows whose quantity_available is at
\* or below the reorder point of the product or at or below the minimum of
\* the buffer of the product.
C21_LowStockListed ==
  [][(answer'.n # answer.n /\ answer'.op \in LowStockOps) =>
       /\ answer'.code = 200
       /\ answer'.items = {r.id : r \in {s \in stock' : IsLow(s, product', buffer')}}]_vars

UserOps == {"list", "retrieve", "update", "destroy"}

\* The users with the assigned warehouse of caller c.
SameWarehouse(c, rows) ==
  {u \in rows : u.assigned_warehouse = c.assigned_warehouse}

\* The answer req gets in the step just taken is the answer it gets when
\* the User table holds the rows allowed only.
AnswerOnlyFrom(req, allowed) ==
  /\ answer'.code = UserAnswer(req, allowed).code
  /\ answer'.items = UserAnswer(req, allowed).items

\* The rows a caller c who is no manager may meet in a detail request: the
\* record of c and nothing else.
OwnRecord(c, req) ==
  /\ answer'.code \in {200, 204} => req.id = c.id
  /\ \A u \in users : u.id # c.id => u \in users'

MockListOps == {"users_api", "products_api"}

\* A list request whose limit and offset are integers or absent.
ListAnswered ==
  /\ answer.op \in MockListOps
  /\ answer.req.limit.numeric /\ answer.req.offset.numeric

\* C24: the users and products endpoints answer with the limit
\* min(requested, 1000) and the offset max(requested, 0), and with no more
\* items than that limit.
C24_PageCapped ==
  ListAnswered =>
    /\ answer.code = 200
    /\ answer.data.limit = Min(IntOf(answer.req.limit, DefaultLimit), LimitCap)
    /\ answer.data.offset = Max(IntOf(answer.req.offset, 0), 0)
    /\ Len(answer.data.data) <= answer.data.limit

\* The list the search of the request leaves.
Searched ==
  IF answer.op = "users_api" THEN FilteredUsers(Strip(answer.req.search))
  ELSE FilteredProducts(Strip(answer.req.search))

\* The items of list at the positions offset .. offset+limit-1, counted
\* from 0, in the order of the list.
Window(list, limit, offset) ==
  LET lo == Max(offset, 0)
      hi == Min(offset + limit - 1, Len(list) - 1)
  IN  IF lo <= hi THEN SubSeq(list, lo + 1, hi + 1) ELSE <<>>

\* C25: get_users and get_products return the items of the searched list
\* at the positions offset .. offset+limit-1 in the original order, the
\* size of the searched list as total, and exactly limit items when at
\* least offset+limit items match.
C25_PageWindow ==
  (ListAnswered /\ answer.code = 200) =>
    LET page == answer.data
    IN  /\ page.data = Window(Searched, page.limit, page.offset)
        /\ page.total = Len(Searched)
        /\ (page.offset + page.limit <= Len(Searched)) => Len(page.data) = page.limit

\* C26: a GET of the settings endpoint answers with the settings as the
\* updates so far have left them, never with a response stored before an
\* update.
C26_SettingsFresh ==
  [][(answer'.n # answer.n /\ answer'.op = "settings_api") =>
       answer'.data = settings]_vars

(***************************************************************************)
(* Claims about the approval of an adjustment.                             *)
(***************************************************************************)
\* C27: an approved adjustment stays approved: while the row exists its
\* approved_by never returns to unset, and an approve call succeeds only
\* on an adjustment nobody has approved, so no second user ever approves.
C27_StaysApproved ==
  [][/\ \A d \in db :
          (d.type = "Adjustment" /\ d.by["approved_by"] # None
             /\ ExistsIn(db', "Adjustment", d.id))
          => RowIn(db', "Adjustment", d.id).by["approved_by"] # None
     /\ (Answers("approve", "Adjustment") /\ resp'.code = 200)
          => Row("Adjustment", resp'.id).by["approved_by"] = None]_vars

(***************************************************************************)
(* Claims about saving a location without a code.                          *)
(***************************************************************************)
\* The (warehouse, aisle, rack, bin, level) of instance i is the one of a
\* stored row.
TupleUsed(i, rows) ==
  \E e \in rows :
    /\ e.warehouse = i.warehouse /\ e.aisle = i.aisle /\ e.rack = i.rack
    /\ e.bin = i.bin /\ e.level = i.level

\* The step is the save() of a new instance.
SavesNew == lastSave' # lastSave /\ \A e \in location : e.id # lastSave'.row.id

\* C28: the save of a new location without a code is stored whenever no
\* stored location has its (warehouse, aisle, rack, bin, level); the same
\* aisle, rack, bin and level in another warehouse do not stand in the way.
C28_SaveWithoutCode ==
  [][(SavesNew /\ lastSave'.inst.code = <<>>
        /\ ~TupleUsed(lastSave'.inst, location))
       => lastSave'.stored]_vars

(***************************************************************************)
(* Claims about the category hierarchy.                                    *)
(***************************************************************************)
\* The row reached from row c by following k parent links, c itself when
\* the links end before.
RECURSIVE Ancestor(_, _, _)
Ancestor(c, rows, k) ==
  IF k = 0 \/ c.parent = None THEN c
  ELSE Ancestor(CategoryRow(c.parent[1], rows), rows, k - 1)

\* Following the parent links from c reaches a root.
ReachesRoot(c, rows) ==
  \E k \in 0..Cardinality(rows) : Ancestor(c, rows, k).parent = None

\* The number of parent links from c to its root.
Depth(c, rows) ==
  CHOOSE k \in 0..Cardinality(rows) :
    /\ Ancestor(c, rows, k).parent = None
    /\ \A j \in 0..(k - 1) : Ancestor(c, rows, j).parent # None

\* The names from the j-th ancestor of c down to c, joined by ' > '.
RECURSIVE Joined(_, _, _)
Joined(c, rows, j) ==
  IF j = 0 THEN c.name
  ELSE Ancestor(c, rows, j).name \o " > " \o Joined(c, rows, j - 1)

\* The requests whose response renders a category.
CategoryOps == {"create", "partial_update", "retrieve"}

\* C29: the category hierarchy is acyclic and full_path terminates:
\* following the parent links from any category reaches a root, and a
\* response that renders a category carries as full_path the names from
\* the root down to it, joined by ' > '.
C29_Acyclic ==
  /\ \A c \in category : ReachesRoot(c, category)
  /\ (answer.op \in CategoryOps /\ answer.code # 400)
       => /\ answer.code \in {200, 201}
          /\ LET c == CategoryRow(answer.id, category)
             IN  answer.full_path = Joined(c, category, Depth(c, category))

(***************************************************************************)
(* Claims about the statuses the transition actions reach.                 *)
(***************************************************************************)
\* StatusStep leaves out no step of the transition actions: every change
\* of a status that a step makes is one of StatusStep.
TransitionsAsWritten ==
  [][\A d \in db :
       ExistsIn(db', d.type, d.id) =>
         LET e == RowIn(db', d.type, d.id)
         IN  e.status # d.status => e.status \in StatusStep(d.type, d.status)]_vars

\* C30: every status a document type declares is reachable from the
\* initial status of the type by transition actions alone: for a stored
\* document in its initial status, each of the status choices of its type
\* is among the statuses that sequences of transition actions lead to.
C30_AllStatusesReachable ==
  \A d \in db :
    d.status = DefaultStatus(d.type)
      => StatusChoices(d.type) \subseteq Reachable(d.type, {d.status})

====
